---- MODULE Spec2Model ----
(***************************************************************************)
(* Album aggregation / debounce engine of bot.py.                          *)
(*                                                                         *)
(* One asyncio event loop runs the update handler handle_media (updates   *)
(* are processed one after the other: the Application is built without    *)
(* concurrent_updates) and the debounce tasks _debounce_finalize created   *)
(* by it.  Control changes hands only at an await; every action below is   *)
(* the code between two awaits.                                            *)
(*                                                                         *)
(* Time is counted in units of 0.1 s, the resolution of the guard of      *)
(* line 259.  Clocks are kept relative: a buffer carries the time elapsed  *)
(* since its last_update, a sleeping task the time left of its sleep.      *)
(***************************************************************************)
EXTENDS Integers, Sequences, FiniteSets, TLC

\* ---------------------------------------------------------------- bounds
MaxMsgs == 3        \* updates handed to handle_media in a run of Spec
MaxAlbumMsgs == 4   \* updates handed to handle_media in a run of SpecAlbum
MaxGroups == 1      \* distinct transport media_group_id values
MaxChats == 2       \* distinct conversations (a run of SpecChats hears them all)
MaxChatMsgs == 2    \* updates handed to handle_media in a run of SpecChats

\* the debounce interval of the run (line 42 reads it from the environment), in
\* units of 0.1 s
ALBUM_TTL_SEC == 4

\* ------------------------------------------------------ program constants
Slack == 1          \* the 0.1 of line 259
ALLOWED_CHAT_ID == 0
HTTP_OK == 200
MIN_Q == 30         \* line 39
MAX_Q == 90         \* line 39
Rounds == 10        \* line 100: for _ in range(10)

\* the encoded sizes and targets the re-encoder is run on
MaxSize == 3

Larger(a, b) == IF a > b THEN a ELSE b
Msgs == 1..Larger(Larger(MaxMsgs, MaxAlbumMsgs), MaxChatMsgs)
GroupIds == 1..MaxGroups
Chats == 1..MaxChats
MsgIds == Msgs
None == 0

\* mgid values: the transport's media_group_id, or "single_<message_id>"
Keys == ({"grp"} \X GroupIds) \cup ({"single"} \X MsgIds)

VARIABLES
    delivered,       \* the updates handed to handle_media so far, in order
    hres,            \* per update: how its handle_media call ended
    h,               \* the running handle_media call: pc and its local `album`
    nextId,          \* per chat: the message_id of its next message
    ALBUMS,          \* mgid -> buffer (None when absent)
    FINALIZE_TASKS,  \* mgid -> task (None when absent)
    buf,             \* the AlbumBuffer objects, live or not
    task,            \* the _debounce_finalize tasks, one per scheduling update
    notes,           \* per update: reply_text calls that reached its conversation
    sinceArr,        \* time since the last handle_media call began (capped)
    feed,            \* what the transport delivers in this run (never changes)
    enc              \* a call of to_webp_optimized: its image, target and locals

vars == <<delivered, hres, h, nextId, ALBUMS, FINALIZE_TASKS, buf, task, notes, sinceArr,
          feed, enc>>

\* ---------------------------------------------------------------- helpers
Min(a, b) == IF a < b THEN a ELSE b
Max(a, b) == IF a > b THEN a ELSE b

\* line 224: mgid = msg.media_group_id or f"single_{msg.message_id}"
mgidOf(m) ==
    IF m.media_group_id # None THEN <<"grp", m.media_group_id>>
    ELSE <<"single", m.message_id>>

\* the synthesized key is passed on as it is
ExposedGroupId_Leak(key) == key[2]

\* line 149: None if album.media_group_id.startswith("single_") else album.media_group_id
ExposedGroupId(key) == IF key[1] = "single" THEN None ELSE key[2]

\* line 141: f"drafts/{draft_id}/images/{idx:02d}.webp"
StoragePath(draft_id, idx) == <<draft_id, idx>>

\* lines 118-125: a fresh AlbumBuffer; age is now - last_update
AlbumBuffer(mgid, chat) ==
    [media_group_id |-> mgid, chat_id |-> chat, caption |-> None,
     message_ids |-> <<>>, items |-> <<>>, age |-> 0]

NoBuffer == [media_group_id |-> <<"none", 0>>, chat_id |-> 0, caption |-> None,
             message_ids |-> <<>>, items |-> <<>>, age |-> 0]

NoTask == [pc |-> "none", remaining |-> 0, cancel |-> FALSE, alb |-> None,
           recv |-> <<>>, uploads |-> <<>>, upfail |-> FALSE, payload |-> <<>>,
           got200 |-> FALSE, result |-> "none"]

\* the mgid captured by the closure of task t (line 256 closes over mgid and msg)
KeyOf(t) == mgidOf(delivered[t])

Live(t) == task[t].pc \notin {"none", "done"}
CancelPending == \E t \in Msgs : Live(t) /\ task[t].cancel
TimerDue == \E t \in Msgs : task[t].pc = "sleep" /\ task[t].remaining = 0 /\ ~task[t].cancel

\* lines 145-151: the payload of the ingestion request (None stands for the ""
\* of `album.caption or ""`)
Payload(draft_id, album, images) ==
    [draftId |-> draft_id, caption |-> album.caption, chat_id |-> album.chat_id,
     media_group_id |-> ExposedGroupId(album.media_group_id),
     images |-> images]

\* the registries are cleared instead of popping the task's own key
Finally_PopAll(t, res) ==
    /\ ALBUMS' = [k \in Keys |-> None]
    /\ FINALIZE_TASKS' = [k \in Keys |-> None]
    /\ task' = [task EXCEPT ![t].pc = "done", ![t].cancel = FALSE, ![t].result = res,
                             ![t].remaining = 0]

\* lines 270-272: finally: ALBUMS.pop(mgid, None); FINALIZE_TASKS.pop(mgid, None)
Finally(t, res) ==
    /\ ALBUMS' = [ALBUMS EXCEPT ![KeyOf(t)] = None]
    /\ FINALIZE_TASKS' = [FINALIZE_TASKS EXCEPT ![KeyOf(t)] = None]
    /\ task' = [task EXCEPT ![t].pc = "done", ![t].cancel = FALSE, ![t].result = res,
                             ![t].remaining = 0]

\* ------------------------------------------------------------------- Init
\* no call of to_webp_optimized is followed step by step
NoEncode == [pc |-> "idle", cut |-> <<MIN_Q, MIN_Q>>, level |-> <<1, 1, 1>>, target_kb |-> 1,
             low |-> MIN_Q, high |-> MAX_Q, best_q |-> MIN_Q, found |-> FALSE, round |-> 0]

Start(f) ==
    /\ delivered = <<>>
    /\ hres = [n \in Msgs |-> "none"]
    /\ h = [pc |-> "idle", alb |-> None]
    /\ nextId = [c \in Chats |-> 1]
    /\ ALBUMS = [k \in Keys |-> None]
    /\ FINALIZE_TASKS = [k \in Keys |-> None]
    /\ buf = [b \in Msgs |-> NoBuffer]
    /\ task = [t \in Msgs |-> NoTask]
    /\ notes = [n \in Msgs |-> 0]
    /\ sinceArr = ALBUM_TTL_SEC
    /\ feed = f
    /\ enc = NoEncode

\* a run in one conversation: photos of an album, single photos, stale updates
Init ==
    Start([limit |-> MaxMsgs, chats |-> {1}, groups |-> {None} \cup GroupIds,
           stale |-> BOOLEAN, captions |-> {FALSE}])

\* a run in which the transport delivers the photos of albums only
InitAlbum ==
    Start([limit |-> MaxAlbumMsgs, chats |-> {1}, groups |-> GroupIds,
           stale |-> {FALSE}, captions |-> {FALSE}])

\* a run in which the photos of albums come with or without a caption
InitCaption ==
    Start([limit |-> MaxMsgs, chats |-> {1}, groups |-> GroupIds,
           stale |-> {FALSE}, captions |-> BOOLEAN])

\* a run in which single photos come from several conversations
InitChats ==
    Start([limit |-> MaxChatMsgs, chats |-> Chats, groups |-> {None},
           stale |-> {FALSE}, captions |-> {FALSE}])

\* ------------------------------------------------------------ handle_media
\* lines 231-232: if msg.caption and not album.caption: album.caption = msg.caption
SetCaption(old, new) == IF new # None /\ old = None THEN new ELSE old

\* lines 216-233: from the call up to the first await (get_file)
HandleMediaStart(c, g, stale, cap) ==
    /\ h.pc = "idle"
    /\ Len(delivered) < feed.limit
    /\ c \in feed.chats /\ g \in feed.groups /\ stale \in feed.stale
    /\ cap \in feed.captions
    /\ LET n == Len(delivered) + 1
           m == [chat |-> c, message_id |-> nextId[c], media_group_id |-> g,
                 caption |-> IF cap THEN n ELSE None,
                 stale |-> stale, within |-> (sinceArr < ALBUM_TTL_SEC)]
           mgid == mgidOf(m)
           fresh == ALBUMS[mgid] = None
           b == IF fresh THEN n ELSE ALBUMS[mgid]
           old == IF fresh THEN AlbumBuffer(mgid, c) ELSE buf[b]
       IN /\ delivered' = Append(delivered, m)
          /\ nextId' = [nextId EXCEPT ![c] = @ + 1]
          /\ IF stale \/ (ALLOWED_CHAT_ID # 0 /\ c # ALLOWED_CHAT_ID)
             THEN \* lines 219-222: return
                  /\ hres' = [hres EXCEPT ![n] = "ignored"]
                  /\ UNCHANGED <<h, ALBUMS, buf, sinceArr>>
             ELSE /\ hres' = [hres EXCEPT ![n] = "fetch"]
                  /\ ALBUMS' = [ALBUMS EXCEPT ![mgid] = b]
                  /\ buf' = [buf EXCEPT ![b] =
                               [old EXCEPT !.age = 0,
                                           !.message_ids = Append(@, m.message_id),
                                           !.caption = SetCaption(@, m.caption)]]
                  /\ h' = [pc |-> "fetch", alb |-> b]
                  /\ sinceArr' = 0
    /\ UNCHANGED <<FINALIZE_TASKS, task, notes, feed, enc>>

\* lines 235-246: get_file, download_to_memory or to_webp_optimized raises; the
\* exception leaves handle_media (no handler of the module catches it)
HandleMediaFail ==
    /\ h.pc = "fetch"
    /\ ~CancelPending
    /\ hres' = [hres EXCEPT ![Len(delivered)] = "failed"]
    /\ h' = [pc |-> "idle", alb |-> None]
    /\ UNCHANGED <<delivered, nextId, ALBUMS, FINALIZE_TASKS, buf, task, notes, sinceArr, feed, enc>>

\* lines 254-255: if task := FINALIZE_TASKS.get(mgid): task.cancel()
CancelRegistered(tk, mgid) ==
    [t \in Msgs |->
        IF t = FINALIZE_TASKS[mgid] /\ tk[t].pc \notin {"none", "done"}
        THEN [tk[t] EXCEPT !.cancel = TRUE] ELSE tk[t]]

\* lines 243-273: the download is done; encode, append, cancel, schedule
HandleMediaDone ==
    /\ h.pc = "fetch"
    /\ ~CancelPending
    /\ LET n == Len(delivered)
           mgid == mgidOf(delivered[n])
       IN /\ buf' = [buf EXCEPT ![h.alb].items = Append(@, n)]
          /\ task' = [CancelRegistered(task, mgid) EXCEPT ![n] =
                        [NoTask EXCEPT !.pc = "sleep", !.remaining = ALBUM_TTL_SEC]]
          /\ FINALIZE_TASKS' = [FINALIZE_TASKS EXCEPT ![mgid] = n]
          /\ hres' = [hres EXCEPT ![n] = "ok"]
    /\ h' = [pc |-> "idle", alb |-> None]
    /\ UNCHANGED <<delivered, nextId, ALBUMS, notes, sinceArr, feed, enc>>

\* ------------------------------------------------------ _debounce_finalize
\* lines 262-263 and 270-272: CancelledError is raised at the task's await
TaskCancelled(t) ==
    /\ Live(t) /\ task[t].cancel
    /\ Finally(t, IF task[t].pc = "errreply" THEN "failed" ELSE "cancelled")
    /\ UNCHANGED <<delivered, hres, h, nextId, buf, notes, sinceArr, feed, enc>>

\* line 259: mgid in ALBUMS and (time.time() - ALBUMS[mgid].last_update) >= (ALBUM_TTL_SEC - 0.1)
Quiescent_NoAge(mgid) == ALBUMS[mgid] # None

Quiescent(mgid) ==
    /\ ALBUMS[mgid] # None
    /\ buf[ALBUMS[mgid]].age >= ALBUM_TTL_SEC - Slack

\* lines 258-261 and 137-151: the sleep is over
TimerFire(t) ==
    /\ task[t].pc = "sleep" /\ task[t].remaining = 0 /\ ~task[t].cancel
    /\ ~CancelPending
    /\ IF Quiescent(KeyOf(t))
       THEN LET b == ALBUMS[KeyOf(t)]
            IN /\ task' = [task EXCEPT ![t] =
                     [@ EXCEPT !.alb = b, !.recv = buf[b].items,
                               !.pc = IF buf[b].items = <<>> THEN "post" ELSE "upload",
                               !.payload = IF buf[b].items = <<>>
                                           THEN <<Payload(t, buf[b], <<>>)>> ELSE <<>>]]
               /\ UNCHANGED <<ALBUMS, FINALIZE_TASKS>>
       ELSE Finally(t, "noop")
    /\ UNCHANGED <<delivered, hres, h, nextId, buf, notes, sinceArr, feed, enc>>

\* lines 140-143: the upload of album.items[idx] returns; the loop runs over the
\* live list, so what it does next depends on the list as it is now
UploadImage_Reversed(up, draft_id, album) ==
    LET idx == Len(up)
    IN Append(up, [storagePath |-> StoragePath(draft_id, idx), index |-> idx,
                   data |-> album.items[Len(album.items) - idx]])

UploadImage(up, draft_id, album) ==
    LET idx == Len(up)
    IN Append(up, [storagePath |-> StoragePath(draft_id, idx), index |-> idx,
                   data |-> album.items[idx + 1]])

UploadDone(t) ==
    /\ task[t].pc = "upload" /\ ~task[t].cancel
    /\ LET album == buf[task[t].alb]
           up == UploadImage(task[t].uploads, t, album)
           images == [i \in 1..Len(up) |->
                        [storagePath |-> up[i].storagePath, index |-> up[i].index]]
       IN task' = [task EXCEPT ![t] =
                     [@ EXCEPT !.uploads = up,
                               !.pc = IF Len(up) < Len(album.items) THEN "upload" ELSE "post",
                               !.payload = IF Len(up) < Len(album.items) THEN <<>>
                                           ELSE <<Payload(t, album, images)>>]]
    /\ UNCHANGED <<delivered, hres, h, nextId, ALBUMS, FINALIZE_TASKS, buf, notes, sinceArr, feed, enc>>

\* line 142 raises (storage error): except Exception, line 264
UploadFail(t) ==
    /\ task[t].pc = "upload" /\ ~task[t].cancel
    /\ task' = [task EXCEPT ![t].pc = "errreply", ![t].upfail = TRUE]
    /\ UNCHANGED <<delivered, hres, h, nextId, ALBUMS, FINALIZE_TASKS, buf, notes, sinceArr, feed, enc>>

PostDone_AnyStatus(t, status) ==
    /\ task[t].pc = "post" /\ ~task[t].cancel
    /\ task' = [task EXCEPT ![t].pc = "reply", ![t].got200 = (status = HTTP_OK)]
    /\ UNCHANGED <<delivered, hres, h, nextId, ALBUMS, FINALIZE_TASKS, buf, notes, sinceArr, feed, enc>>

\* lines 153-168: the POST answers with `status` (0: the request raised)
PostDone(t, status) ==
    /\ task[t].pc = "post" /\ ~task[t].cancel
    /\ task' = [task EXCEPT ![t].pc = IF status = HTTP_OK THEN "reply" ELSE "errreply",
                             ![t].got200 = (status = HTTP_OK)]
    /\ UNCHANGED <<delivered, hres, h, nextId, ALBUMS, FINALIZE_TASKS, buf, notes, sinceArr, feed, enc>>

\* lines 170-174, then finally: the success notification
ReplyDone(t, sent) ==
    /\ task[t].pc = "reply" /\ ~task[t].cancel
    /\ IF sent
       THEN /\ notes' = [notes EXCEPT ![t] = @ + 1]
            /\ Finally(t, "ok")
       ELSE /\ task' = [task EXCEPT ![t].pc = "errreply"]
            /\ UNCHANGED <<notes, ALBUMS, FINALIZE_TASKS>>
    /\ UNCHANGED <<delivered, hres, h, nextId, buf, sinceArr, feed, enc>>

\* lines 264-272: the failure notification (its own failure is swallowed)
ErrReplyDone(t, sent) ==
    /\ task[t].pc = "errreply" /\ ~task[t].cancel
    /\ notes' = [notes EXCEPT ![t] = IF sent THEN @ + 1 ELSE @]
    /\ Finally(t, "failed")
    /\ UNCHANGED <<delivered, hres, h, nextId, buf, sinceArr, feed, enc>>

\* ------------------------------------------------------------------- time
\* 0.1 s passes.  A cancellation already delivered to a task and a sleep that is
\* over are handled by the loop before time moves on.
Tick ==
    /\ ~CancelPending
    /\ ~TimerDue
    /\ \/ \E t \in Msgs : task[t].pc = "sleep"
       \/ h.pc = "fetch"
       \/ sinceArr < ALBUM_TTL_SEC
    /\ buf' = [b \in Msgs |-> [buf[b] EXCEPT !.age = Min(@ + 1, ALBUM_TTL_SEC)]]
    /\ task' = [t \in Msgs |-> [task[t] EXCEPT !.remaining = Max(@ - 1, 0)]]
    /\ sinceArr' = Min(sinceArr + 1, ALBUM_TTL_SEC)
    /\ UNCHANGED <<delivered, hres, h, nextId, ALBUMS, FINALIZE_TASKS, notes, feed, enc>>

Next ==
    \/ \E c \in Chats, g \in {None} \cup GroupIds, stale \in BOOLEAN, cap \in BOOLEAN :
          HandleMediaStart(c, g, stale, cap)
    \/ HandleMediaFail
    \/ HandleMediaDone
    \/ \E t \in Msgs : TaskCancelled(t)
    \/ \E t \in Msgs : TimerFire(t)
    \/ \E t \in Msgs : UploadDone(t)
    \/ \E t \in Msgs : UploadFail(t)
    \/ \E t \in Msgs, status \in {0, HTTP_OK, 500} : PostDone(t, status)
    \/ \E t \in Msgs, sent \in BOOLEAN : ReplyDone(t, sent)
    \/ \E t \in Msgs, sent \in BOOLEAN : ErrReplyDone(t, sent)
    \/ Tick

Spec == Init /\ [][Next]_vars
SpecAlbum == InitAlbum /\ [][Next]_vars
SpecCaption == InitCaption /\ [][Next]_vars
SpecChats == InitChats /\ [][Next]_vars

\* ------------------------------------------------------- to_webp_optimized
\* The image is what im.save makes of it: the size of its WebP encoding at each
\* quality, here a step function with two cuts and three levels (any order of
\* the levels, so sizes need not grow with the quality).
Qualities == (MIN_Q - 1)..MAX_Q
Levels == {<<1, 2, 3>>, <<1, 1, 2>>, <<3, 1, 2>>, <<2, 3, 1>>}

\* lines 103-104: size_kb of the encoding at quality q
SizeKb(e, q) ==
    IF q < e.cut[1] THEN e.level[1] ELSE IF q < e.cut[2] THEN e.level[2] ELSE e.level[3]

\* lines 98-99: the locals before the loop
InitEncode ==
    /\ delivered = <<>>
    /\ hres = [n \in Msgs |-> "none"]
    /\ h = [pc |-> "idle", alb |-> None]
    /\ nextId = [c \in Chats |-> 1]
    /\ ALBUMS = [k \in Keys |-> None]
    /\ FINALIZE_TASKS = [k \in Keys |-> None]
    /\ buf = [b \in Msgs |-> NoBuffer]
    /\ task = [t \in Msgs |-> NoTask]
    /\ notes = [n \in Msgs |-> 0]
    /\ sinceArr = ALBUM_TTL_SEC
    /\ feed = [limit |-> 0, chats |-> {}, groups |-> {}, stale |-> {}, captions |-> {}]
    /\ \E c1 \in MIN_Q - 1 .. MAX_Q + 1, c2 \in MIN_Q - 1 .. MAX_Q + 1,
          lv \in Levels, tg \in 1..MaxSize - 1 :
          /\ c1 <= c2
          /\ enc = [pc |-> "search", cut |-> <<c1, c2>>, level |-> lv, target_kb |-> tg,
                    low |-> MIN_Q, high |-> MAX_Q, best_q |-> MIN_Q, found |-> FALSE,
                    round |-> 0]

\* lines 100-109: one round of the loop
EncodeRound ==
    /\ enc.pc = "search" /\ enc.round < Rounds
    /\ LET q == (enc.low + enc.high) \div 2
       IN enc' = IF SizeKb(enc, q) <= enc.target_kb
                 THEN [enc EXCEPT !.found = TRUE, !.best_q = q, !.low = q + 1,
                                  !.round = @ + 1]
                 ELSE [enc EXCEPT !.high = q - 1, !.round = @ + 1]
    /\ UNCHANGED <<delivered, hres, h, nextId, ALBUMS, FINALIZE_TASKS, buf, task, notes,
                   sinceArr, feed>>

\* lines 110-115: the fallback and the return of (best_buf, best_q); best_buf is
\* the encoding at quality best_q
EncodeReturn ==
    /\ enc.pc = "search" /\ enc.round = Rounds
    /\ enc' = [enc EXCEPT !.pc = "done",
                          !.best_q = IF enc.found THEN enc.best_q ELSE MIN_Q]
    /\ UNCHANGED <<delivered, hres, h, nextId, ALBUMS, FINALIZE_TASKS, buf, task, notes,
                   sinceArr, feed>>

NextEncode == EncodeRound \/ EncodeReturn

SpecEncode == InitEncode /\ [][NextEncode]_vars

TypeOK ==
    /\ h.pc \in {"idle", "fetch"}
    /\ \A k \in Keys : ALBUMS[k] \in {None} \cup Msgs /\ FINALIZE_TASKS[k] \in {None} \cup Msgs
    /\ \A t \in Msgs : task[t].pc \in {"none", "sleep", "upload", "post", "reply", "errreply", "done"}
\* ---------------------------------------------------------------- claims
Delivered == 1..Len(delivered)
Started(t) == task[t].alb # None
FinalizeCalls(k) == {t \in Delivered : Started(t) /\ KeyOf(t) = k}
\* nothing is running and nothing is scheduled: the state a run ends in when no
\* further update follows
Quiet == h.pc = "idle" /\ \A t \in Msgs : ~Live(t)
InOrder(S) == LET Test(i) == i \in S IN SelectSeq([i \in Delivered |-> i], Test)
Appended == {n \in Delivered : hres[n] = "ok"}
\* every update so far came under key k, each less than ALBUM_TTL_SEC after the
\* one before it
SameKeyBurst(k) ==
    /\ Len(delivered) >= 1
    /\ \A n \in Delivered :
          /\ mgidOf(delivered[n]) = k
          /\ hres[n] \in {"ok", "failed"}
          /\ n > 1 => delivered[n].within
\* n is the only update under its key
Alone(n) ==
    \A m \in Delivered \ {n} :
        hres[m] # "ignored" => mgidOf(delivered[m]) # mgidOf(delivered[n])

\* C1: a burst of N >= 1 items under one key, each less than ALBUM_TTL_SEC after
\* the previous one and with nothing after it, ends with exactly one call of
\* finalize_and_send for the key, on a buffer holding the N items in arrival order.
C1_BurstFinalizedOnce ==
    \A k \in Keys :
        (Quiet /\ SameKeyBurst(k) /\ Appended = Delivered) =>
            /\ Cardinality(FinalizeCalls(k)) = 1
            /\ \A t \in FinalizeCalls(k) : task[t].recv = InOrder(Delivered)

\* C2: one item without a media_group_id and nothing else under its synthesized
\* key is finalized exactly once, alone, and the payload's media_group_id is null.
C2_SingleFinalizedOnce ==
    \A n \in Delivered :
        (delivered[n].media_group_id = None /\ hres[n] = "ok" /\ Alone(n)
            /\ task[n].pc = "done") =>
            /\ FinalizeCalls(KeyOf(n)) = {n}
            /\ task[n].recv = <<n>>
            /\ \A i \in 1..Len(task[n].payload) : task[n].payload[i].media_group_id = None
C2_Witness ==
    \E n \in Delivered :
        /\ delivered[n].media_group_id = None /\ hres[n] = "ok" /\ Alone(n)
        /\ task[n].pc = "done" /\ task[n].result = "ok"
        /\ Len(task[n].payload) = 1 /\ Len(task[n].uploads) = 1
        /\ Len(delivered) > 1

\* C3: finalize_and_send is invoked at most once on any AlbumBuffer.
C3_FinalizedAtMostOnce ==
    \A b \in Msgs : Cardinality({t \in Msgs : task[t].alb = b}) <= 1

\* C4: every debounce task still waiting (not finished, not cancelled) is the one
\* registered in FINALIZE_TASKS under its key, so there is at most one per key.
C4_OnePendingTimerPerKey ==
    \A t \in Msgs :
        (task[t].pc = "sleep" /\ ~task[t].cancel) => FINALIZE_TASKS[KeyOf(t)] = t
\* a step of task t itself (as opposed to a step of the handler or of the clock)
OwnStep(t) ==
    /\ task[t].pc # "none"
    /\ task'[t].pc # task[t].pc \/ task'[t].uploads # task[t].uploads
\* every item a finalize call was handed or has uploaded arrived under the call's key
OwnItemsOnly ==
    \A t \in Delivered :
        /\ \A i \in 1..Len(task[t].recv) : KeyOf(task[t].recv[i]) = KeyOf(t)
        /\ \A i \in 1..Len(task[t].uploads) : KeyOf(task[t].uploads[i].data) = KeyOf(t)
\* a key with a single item gets its finalize call, whatever happens under other keys
LoneItemFinalized ==
    \A n \in Delivered :
        (hres[n] = "ok" /\ Alone(n) /\ task[n].pc = "done") =>
            (FinalizeCalls(KeyOf(n)) = {n} /\ task[n].recv = <<n>>)
\* a step of a task leaves everything kept under the other keys as it was
OtherKeysUntouched ==
    \A t \in Delivered :
        OwnStep(t) =>
            /\ \A k \in Keys \ {KeyOf(t)} :
                  ALBUMS'[k] = ALBUMS[k] /\ FINALIZE_TASKS'[k] = FINALIZE_TASKS[k]
            /\ \A u \in Delivered :
                  KeyOf(u) # KeyOf(t) => (task'[u] = task[u] /\ notes'[u] = notes[u])
            /\ buf' = buf

Failed(t) == task[t].pc = "errreply" \/ task[t].result = "failed"

\* C6: once finalize_and_send has failed for a group, its buffer gets no further
\* item and no second finalize call, and when the task has ended the buffer is
\* out of ALBUMS and the task out of FINALIZE_TASKS.
C6_FailedGroupDiscarded ==
    [][\A t \in Delivered :
          Failed(t) =>
              /\ buf'[task[t].alb].items = buf[task[t].alb].items
              /\ \A u \in Msgs : task'[u].alb = task[t].alb => task[u].alb = task[t].alb
              /\ task'[t].pc = "done" =>
                    /\ ALBUMS'[KeyOf(t)] # task[t].alb
                    /\ FINALIZE_TASKS'[KeyOf(t)] # t]_vars

\* C7: a buffer leaves ALBUMS only once it has been handed to finalize_and_send,
\* and none is left in ALBUMS when nothing is running or scheduled any more.
C7_BufferRemovedAtFinalize ==
    [][/\ \A k \in Keys :
             (ALBUMS[k] # None /\ ALBUMS'[k] # ALBUMS[k]) =>
                 \E t \in Msgs : task'[t].alb = ALBUMS[k]
       /\ Quiet' => \A k \in Keys : ALBUMS'[k] = None]_vars

\* C8: every failure (of handle_media for an item, of finalize_and_send for a
\* group) has produced exactly one notification once its handling has ended.
C8_FailureNotifiedOnce ==
    \A n \in Delivered :
        /\ hres[n] = "failed" => notes[n] = 1
        /\ (task[n].pc = "done" /\ task[n].result = "failed") => notes[n] = 1

\* C9: when an item of a burst fails in handle_media, the items of the burst that
\* were appended are finalized together, in one call, wherever the failing item is.
C9_ItemFailureLocal ==
    \A k \in Keys :
        (Quiet /\ SameKeyBurst(k) /\ Appended # {} /\ Appended # Delivered) =>
            /\ Cardinality(FinalizeCalls(k)) = 1
            /\ \A t \in FinalizeCalls(k) : task[t].recv = InOrder(Appended)

\* C10: in every finalize call the item appended i-th (from 0) is the one uploaded
\* to the path of index i, and the payload lists these paths in the same order.
C10_UploadOrder ==
    \A t \in Delivered :
        /\ \A i \in 1..Len(task[t].uploads) :
              /\ task[t].uploads[i].data = buf[task[t].alb].items[i]
              /\ task[t].uploads[i].index = i - 1
              /\ task[t].uploads[i].storagePath = StoragePath(t, i - 1)
        /\ \A p \in 1..Len(task[t].payload) :
              /\ Len(task[t].payload[p].images) = Len(task[t].uploads)
              /\ \A i \in 1..Len(task[t].uploads) :
                    /\ task[t].payload[p].images[i].storagePath = task[t].uploads[i].storagePath
                    /\ task[t].payload[p].images[i].index = i - 1
C10_Witness ==
    \E t \in Delivered :
        /\ Len(task[t].payload) = 1
        /\ Len(task[t].payload[1].images) = 2
        /\ task[t].result = "ok"
\* the updates under key k that got as far as line 231 and carried a caption
Captioned(k) ==
    {m \in Delivered : mgidOf(delivered[m]) = k /\ hres[m] # "ignored"
                         /\ delivered[m].caption # None}
First(S) == CHOOSE m \in S : \A x \in S : m <= x

\* C11: the caption of a group is first-wins: once an item that carried a caption
\* has arrived under a key, every payload composed for the key by a timer
\* scheduled from then on carries the first caption seen under the key; and a
\* payload carries no caption only if no item under the key carried one.
C11_CaptionFirstWins ==
    \A t \in Delivered :
        \A p \in 1..Len(task[t].payload) :
            /\ (\E m \in Captioned(KeyOf(t)) : m <= t) =>
                  task[t].payload[p].caption = delivered[First(Captioned(KeyOf(t)))].caption
            /\ task[t].payload[p].caption = None =>
                  \A m \in Captioned(KeyOf(t)) : m > t
Fits(q) == SizeKb(enc, q) <= enc.target_kb
GrowsWithQuality == \A q \in Qualities \ {MAX_Q} : SizeKb(enc, q) <= SizeKb(enc, q + 1)

\* C12: whatever the sizes of the encodings, the quality to_webp_optimized
\* returns is within [MIN_Q, MAX_Q], also when no quality of that range fits.
C12_QualityInRange ==
    enc.pc = "done" => (MIN_Q <= enc.best_q /\ enc.best_q <= MAX_Q)

\* C13: when the size grows with the quality, to_webp_optimized returns the
\* encoding at the highest quality of [MIN_Q, MAX_Q] that fits the target, and the
\* encoding at MIN_Q when that one already exceeds the target.
C13_HighestFittingQuality ==
    (enc.pc = "done" /\ GrowsWithQuality) =>
        IF \E q \in MIN_Q..MAX_Q : Fits(q)
        THEN /\ Fits(enc.best_q)
             /\ enc.best_q \in MIN_Q..MAX_Q
             /\ \A q \in MIN_Q..MAX_Q : Fits(q) => q <= enc.best_q
        ELSE enc.best_q = MIN_Q
\* C14: two images that arrive without a media_group_id, from whatever
\* conversations, are never put in the same AlbumBuffer nor finalized together:
\* a buffer under a synthesized key holds at most one item.
C14_SynthesizedKeyUnique ==
    /\ \A b \in Msgs :
          buf[b].media_group_id[1] = "single" => Len(buf[b].items) <= 1
    /\ \A t \in Delivered :
          delivered[t].media_group_id = None =>
              (Len(task[t].recv) <= 1 /\ Len(task[t].uploads) <= 1)
\* C15: a debounce task that ends without having called finalize_and_send
\* (cancelled by a newer item, or its guard failed) leaves ALBUMS and
\* FINALIZE_TASKS as they were.
C15_IdleTimerIsNoOp ==
    [][\A t \in Delivered :
          (Live(t) /\ task'[t].pc = "done" /\ ~Started(t)) =>
              (ALBUMS' = ALBUMS /\ FINALIZE_TASKS' = FINALIZE_TASKS)]_vars

InFlight(t) == task[t].pc \in {"upload", "post", "reply"}

\* C16: while finalize_and_send is in flight for a key its buffer is out of
\* ALBUMS and it works on the items it was called with: no item is added to that
\* buffer and what it uploads are items it received.
C16_FinalizeOnSnapshot ==
    [][\A t \in Delivered :
          InFlight(t) =>
              /\ ALBUMS[KeyOf(t)] # task[t].alb
              /\ buf'[task[t].alb].items = buf[task[t].alb].items
              /\ \A i \in 1..Len(task'[t].uploads) :
                    i <= Len(task[t].recv) /\ task'[t].uploads[i].data = task[t].recv[i]]_vars

\* C17: a finalize_and_send in flight is never cancelled: it ends by returning
\* or by raising, whatever arrives meanwhile.
C17_FinalizeNotCancelled ==
    \A t \in Delivered :
        /\ InFlight(t) => ~task[t].cancel
        /\ (Started(t) /\ task[t].pc = "done") => task[t].result \in {"ok", "failed"}
\* the latest update that got past the guards of lines 219-222 (0: none yet);
\* sinceArr is the time since it arrived
LastArrival ==
    LET S == {0} \cup {n \in Delivered : hres[n] # "ignored"}
    IN CHOOSE n \in S : \A m \in S : m <= n

\* C18: finalize_and_send starts for a key only when at least
\* ALBUM_TTL_SEC - 0.1 s have passed since the last arrival under that key
\* (measured by sinceArr when that arrival is the latest of all): an arrival
\* inside the window keeps finalize away for a full interval.
C18_FinalizeAfterQuiescence ==
    [][\A t \in Delivered :
          (/\ ~Started(t) /\ task'[t].alb # None
           /\ mgidOf(delivered[LastArrival]) = KeyOf(t)) =>
              sinceArr >= ALBUM_TTL_SEC - Slack]_vars

\* a finalize that started although an earlier timer of the key was still
\* running when its item arrived
C18_Witness ==
    \E t \in Delivered :
        /\ Started(t) /\ delivered[t].within
        /\ \E u \in Delivered : u > t /\ hres[u] = "ok"
\* the request of finalize call t has been submitted (line 159)
Submitted(t) == task[t].payload # <<>>

\* C19: one finalize call submits the ingestion request at most once, and only
\* when every item has been uploaded; a failed upload means no request; a
\* failed upload or a response other than 200 ends the call as a failure with
\* nothing tried again; the success notification follows a 200 only.
C19_SubmitOnceAfterUploads ==
    [][\A t \in Delivered :
          /\ Len(task'[t].payload) <= 1
          /\ Submitted(t) => task'[t].payload = task[t].payload
          /\ (~Submitted(t) /\ task'[t].payload # <<>>) =>
                /\ ~task'[t].upfail
                /\ Len(task'[t].uploads) = Len(buf[task'[t].alb].items)
                /\ Len(task'[t].payload[1].images) = Len(task'[t].uploads)
          /\ task[t].upfail =>
                /\ task'[t].upfail /\ ~Submitted(t) /\ task'[t].payload = <<>>
                /\ task'[t].uploads = task[t].uploads
                /\ task'[t].pc \in {"errreply", "done"}
                /\ task'[t].result \in {"none", "failed"}
          /\ (task[t].pc = "post" /\ task'[t].pc \notin {"post", "done"}) =>
                task'[t].pc = (IF task'[t].got200 THEN "reply" ELSE "errreply")
          /\ task[t].pc = "errreply" =>
                (task'[t].pc \in {"errreply", "done"} /\ task'[t].result \in {"none", "failed"})
          /\ (task'[t].pc = "reply" \/ task'[t].result = "ok") =>
                (task'[t].got200 /\ Len(task'[t].payload) = 1)]_vars

\* a call that ended on a failed upload without submitting, and a call that
\* submitted and was answered with something other than 200
C19_Witness ==
    \E t, u \in Delivered :
        /\ task[t].upfail /\ task[t].result = "failed" /\ ~Submitted(t)
        /\ Submitted(u) /\ ~task[u].got200 /\ task[u].result = "failed"
\* the finalize calls that were handed item n: it was in the buffer when the
\* call began, or the call uploaded it
HandedTo(n) ==
    {t \in Delivered :
        Started(t) /\ (\/ \E i \in 1..Len(task[t].recv) : task[t].recv[i] = n
                       \/ \E i \in 1..Len(task[t].uploads) : task[t].uploads[i].data = n)}

\* C20: whatever the sequence and timing of arrivals, once everything has run
\* every item that handle_media appended has been passed to exactly one
\* finalize_and_send call: none is lost, none is passed twice.
C20_EveryItemFinalizedOnce ==
    Quiet => \A n \in Appended : Cardinality(HandedTo(n)) = 1
====
